---------------------------- MODULE Spec2Model ----------------------------
(***************************************************************************)
(* Model of intake_esm/utils.py: the reachability check _is_valid_url, the *)
(* descriptor loader _fetch_and_parse_json and the catalog resolver        *)
(* _fetch_catalog, together with the parts of urllib.parse and pathlib     *)
(* they rely on.                                                           *)
(*                                                                         *)
(* A Python str is a sequence of one-character strings, so that parsing    *)
(* and re-assembling URLs and paths is computed character by character.    *)
(* A Python value is a record [type, val]: type is "str", "Path", "int" or *)
(* "None"; val is the text of the value.                                   *)
(***************************************************************************)
EXTENDS Integers, Sequences, FiniteSets, TLC

(***************************************************************************)
(* Text helpers (str.find, str.rfind, slicing, membership).                *)
(***************************************************************************)
RECURSIVE FindFrom(_, _, _)
\* str.find(c, start): 1-based index of the first c at or after start, 0 if none
FindFrom(s, c, start) ==
  IF start > Len(s) THEN 0
  ELSE IF s[start] = c THEN start
  ELSE FindFrom(s, c, start + 1)

Find(s, c) == FindFrom(s, c, 1)

RECURSIVE RFindFrom(_, _, _)
\* str.rfind(c): 1-based index of the last c at or before i, 0 if none
RFindFrom(s, c, i) ==
  IF i < 1 THEN 0
  ELSE IF s[i] = c THEN i
  ELSE RFindFrom(s, c, i - 1)

RFind(s, c) == RFindFrom(s, c, Len(s))

Has(s, c) == Find(s, c) > 0

\* s[:i-1] and s[i+1:] for a 1-based index i
Before(s, i) == SubSeq(s, 1, i - 1)
After(s, i) == SubSeq(s, i + 1, Len(s))

\* s[:2] == '//'
StartsWithSlashSlash(s) == Len(s) >= 2 /\ s[1] = "/" /\ s[2] = "/"

\* the smallest positive index among the three, 0 if none is positive
MinOf(S) == IF S = {} THEN 0 ELSE CHOOSE x \in S : \A y \in S : x <= y
MinPos(a, b, c) == MinOf({x \in {a, b, c} : x > 0})

Upper == <<"A","B","C","D","E","F","G","H","I","J","K","L","M",
           "N","O","P","Q","R","S","T","U","V","W","X","Y","Z">>
Lower == <<"a","b","c","d","e","f","g","h","i","j","k","l","m",
           "n","o","p","q","r","s","t","u","v","w","x","y","z">>
Digits == {"0","1","2","3","4","5","6","7","8","9"}

\* urllib.parse.scheme_chars
scheme_chars ==
  {Upper[i] : i \in 1..26} \cup {Lower[i] : i \in 1..26} \cup Digits \cup {"+", "-", "."}

\* str.lower() on one character
LowerChar(c) ==
  IF \E i \in 1..26 : Upper[i] = c
  THEN Lower[CHOOSE i \in 1..26 : Upper[i] = c]
  ELSE c

ToLower(s) == [i \in 1..Len(s) |-> LowerChar(s[i])]

IsAlpha(c) == \E i \in 1..26 : Upper[i] = c \/ Lower[i] = c

\* urllib.parse.uses_params and uses_netloc, restricted to the schemes over
\* the characters of this model
uses_params ==
  { <<>>, <<"f","t","p">>, <<"h","t","t","p">>, <<"h","t","t","p","s">>,
    <<"s","f","t","p">>, <<"t","e","l">> }
uses_netloc ==
  { <<>>, <<"f","t","p">>, <<"h","t","t","p">>, <<"h","t","t","p","s">>,
    <<"s","f","t","p">>, <<"f","i","l","e">>, <<"w","s">> }

(***************************************************************************)
(* urllib.parse: urlsplit, urlparse, urlunsplit, urlunparse.               *)
(***************************************************************************)
\* the scheme prefix ends at i = url.find(':') when i > 0, the first character
\* is a letter and every character before i is a scheme character
SchemeEndAt(url, i) ==
  IF i > 1 /\ IsAlpha(url[1]) /\ \A k \in 1..(i - 1) : url[k] \in scheme_chars
  THEN i ELSE 0

SchemeEnd(url) == SchemeEndAt(url, Find(url, ":"))

\* _splitnetloc(url, 2): the netloc ends at the first of '/', '?', '#'
NetlocEndAt(rest, d) == IF d = 0 THEN Len(rest) + 1 ELSE d

NetlocEnd(rest) ==
  NetlocEndAt(rest, MinPos(FindFrom(rest, "/", 3), FindFrom(rest, "?", 3),
                           FindFrom(rest, "#", 3)))

\* urlsplit raises ValueError("Invalid IPv6 URL") on unbalanced brackets
InvalidIPv6(netloc) ==
  \/ Has(netloc, "[") /\ ~Has(netloc, "]")
  \/ Has(netloc, "]") /\ ~Has(netloc, "[")

\* urlsplit, last step: url, query = url.split('?', 1) at index q
SplitQueryAt(scheme, netloc, url, fragment, q) ==
  [raises |-> InvalidIPv6(netloc), scheme |-> scheme, netloc |-> netloc,
   path |-> IF q > 0 THEN Before(url, q) ELSE url,
   query |-> IF q > 0 THEN After(url, q) ELSE <<>>,
   fragment |-> fragment]

SplitQuery(scheme, netloc, url, fragment) ==
  SplitQueryAt(scheme, netloc, url, fragment, Find(url, "?"))

\* urlsplit: url, fragment = url.split('#', 1) at index h
SplitFragmentAt(scheme, netloc, url, h) ==
  SplitQuery(scheme, netloc,
             IF h > 0 THEN Before(url, h) ELSE url,
             IF h > 0 THEN After(url, h) ELSE <<>>)

SplitFragment(scheme, netloc, url) ==
  SplitFragmentAt(scheme, netloc, url, Find(url, "#"))

\* urlsplit: netloc, url = _splitnetloc(url, 2), the netloc ending before e
SplitNetlocAt(scheme, url, e) ==
  SplitFragment(scheme, SubSeq(url, 3, e - 1), SubSeq(url, e, Len(url)))

SplitNetloc(scheme, url) ==
  IF StartsWithSlashSlash(url)
  THEN SplitNetlocAt(scheme, url, NetlocEnd(url))
  ELSE SplitFragment(scheme, <<>>, url)

\* urlsplit: scheme, url = url[:i].lower(), url[i+1:]
SplitSchemeAt(url, i) ==
  IF i > 0
  THEN SplitNetloc(ToLower(Before(url, i)), After(url, i))
  ELSE SplitNetloc(<<>>, url)

urlsplit(url) == SplitSchemeAt(url, SchemeEnd(url))

\* _splitparams(url): the index of the ';' that starts the params, 0 if none
ParamsAt(url) ==
  IF Has(url, "/")
  THEN FindFrom(url, ";", RFind(url, "/"))
  ELSE Find(url, ";")

\* urlparse: url, params = _splitparams(url) at index i
SplitParamsAt(s, i) ==
  [raises |-> s.raises, scheme |-> s.scheme, netloc |-> s.netloc,
   path |-> IF i > 0 THEN Before(s.path, i) ELSE s.path,
   params |-> IF i > 0 THEN After(s.path, i) ELSE <<>>,
   query |-> s.query, fragment |-> s.fragment]

SplitParams(s) ==
  SplitParamsAt(s, IF s.scheme \in uses_params THEN ParamsAt(s.path) ELSE 0)

urlparse(url) == SplitParams(urlsplit(url))

\* urlunsplit: the fragment is appended last
AddFragment(url, fragment) ==
  IF fragment # <<>> THEN url \o <<"#">> \o fragment ELSE url

AddQuery(url, query) ==
  IF query # <<>> THEN url \o <<"?">> \o query ELSE url

AddScheme(scheme, url) ==
  IF scheme # <<>> THEN scheme \o <<":">> \o url ELSE url

AddNetloc(scheme, netloc, url) ==
  IF netloc # <<>>
     \/ (scheme # <<>> /\ scheme \in uses_netloc /\ ~StartsWithSlashSlash(url))
  THEN <<"/", "/">> \o netloc
       \o (IF url # <<>> /\ url[1] # "/" THEN <<"/">> \o url ELSE url)
  ELSE url

urlunsplit(scheme, netloc, url, query, fragment) ==
  AddFragment(AddQuery(AddScheme(scheme, AddNetloc(scheme, netloc, url)), query),
              fragment)

\* urlunparse(ParseResult(scheme, netloc, path, params, query, fragment))
urlunparse(c) ==
  urlunsplit(c.scheme, c.netloc,
             IF c.params # <<>> THEN c.path \o <<";">> \o c.params ELSE c.path,
             c.query, c.fragment)

(***************************************************************************)
(* pathlib.PurePosixPath: a path is [root, parts].                         *)
(***************************************************************************)
RECURSIVE SplitSegs(_)
\* s.split('/')
SplitSegs(s) ==
  LET i == Find(s, "/")
  IN IF i = 0 THEN <<s>> ELSE <<Before(s, i)>> \o SplitSegs(After(s, i))

\* _PosixFlavour.splitroot: exactly two leading slashes are kept
RootOf(s) ==
  IF s # <<>> /\ s[1] = "/"
  THEN IF StartsWithSlashSlash(s) /\ ~(Len(s) >= 3 /\ s[3] = "/")
       THEN <<"/", "/">> ELSE <<"/">>
  ELSE <<>>

\* Path(s): empty and '.' segments are dropped
ParsePath(s) ==
  [root |-> RootOf(s),
   parts |-> SelectSeq(SplitSegs(s), LAMBDA g : g # <<>> /\ g # <<".">>)]

RECURSIVE JoinSegs(_)
JoinSegs(parts) ==
  IF parts = <<>> THEN <<>>
  ELSE IF Len(parts) = 1 THEN parts[1]
  ELSE parts[1] \o <<"/">> \o JoinSegs(Tail(parts))

\* str(path) / path.as_posix()
as_posix(p) ==
  IF p.root = <<>> /\ p.parts = <<>> THEN <<".">>
  ELSE p.root \o JoinSegs(p.parts)

\* path.parent
parent(p) ==
  IF p.parts = <<>> THEN p
  ELSE [root |-> p.root, parts |-> SubSeq(p.parts, 1, Len(p.parts) - 1)]

\* p / q: an absolute right operand replaces the left one
joinpath(p, q) ==
  IF q.root # <<>> THEN q
  ELSE [root |-> p.root, parts |-> p.parts \o q.parts]


\* Path.cwd(): the working directory of the process
Cwd == <<"/", "w">>

\* path.absolute(): a relative path is joined to the working directory
absolute(p) ==
  IF p.root # <<>> THEN p ELSE joinpath(ParsePath(Cwd), p)

(***************************************************************************)
(* Python values and the inputs of the model.                              *)
(***************************************************************************)
Str(s) == [type |-> "str", val |-> s]
PathV(p) == [type |-> "Path", val |-> as_posix(p)]
IntV(s) == [type |-> "int", val |-> s]
NoneV == [type |-> "None", val |-> <<>>]

\* descriptor URLs
U1 == <<"h","t","t","p",":","/","/","n","/","d","/","f">>
U2 == <<"h","t","t","p",":","/","/","n","/","d","/","f",";","p","?","q","#","g">>
\* values of catalog_file
CfName == <<"c">>
CfSub == <<"s","/","c">>
CfEmpty == <<>>
CfAbs == <<"/","c">>
CfQuery == <<"c","?","x">>
CfUrl == <<"h","t","t","p",":","/","/","n","/","c">>
CatalogFiles == {CfName, CfSub, CfEmpty, CfAbs, CfQuery, CfUrl}
\* a descriptor on the local filesystem, relative to the working directory
LocalRef == <<"d","/","f">>

\* collection_data: the keys of the parsed descriptor
Rec(hasFile, cf, hasDict) ==
  [has_file |-> hasFile, catalog_file |-> cf, has_dict |-> hasDict]
NoRec == Rec(FALSE, <<>>, FALSE)
Records ==
  {Rec(TRUE, c, TRUE) : c \in CatalogFiles}
  \cup {Rec(TRUE, CfName, FALSE), Rec(FALSE, <<>>, TRUE), NoRec}

\* the reference-relative URL of lines 80-90, for naming the resources of
\* the environment
RelUrlOf(split_url, c) ==
  urlunparse([split_url EXCEPT
    !.path = as_posix(joinpath(parent(ParsePath(split_url.path)), ParsePath(c)))])

RelUrl(u, c) == RelUrlOf(urlparse(u), c)

\* the remote resources that can exist
UrlUniverse ==
  {U1, U2, CfUrl} \cup {RelUrl(U1, c) : c \in CatalogFiles \ {CfUrl}}
  \cup {RelUrl(U2, CfName)}

\* the regular files that can exist
PathUniverse ==
  { <<"/","w","/","d","/","f">>,
    <<"/","w","/","c">>,
    <<"/","w","/","s","/","c">>,
    <<"/","w","/","d","/","c">>,
    <<"/","w","/","d","/","s","/","c">>,
    <<"/","w","/","h","t","t","p",":","/","n","/","d","/","c">> }

\* bounds: how many remote resources answer 200, and how many regular files
\* exist, at the same time
MaxReachable == 2
MaxFiles == 2

\* resources whose content is a JSON descriptor, and the record it parses to;
\* every other resource holds CSV text, which is not valid JSON
JsonLocs == {U1, U2, <<"/","w","/","d","/","f">>}
JsonAt(loc) ==
  IF loc = U1 THEN Rec(TRUE, CfName, TRUE)
  ELSE IF loc = U2 THEN Rec(TRUE, CfUrl, FALSE)
  ELSE Rec(TRUE, CfSub, FALSE)

\* tables: the content read from a resource, or built from catalog_dict
CsvTable(loc) == [kind |-> "csv", of |-> loc]
DictTable == [kind |-> "dict", of |-> <<>>]
NoTable == [kind |-> "none", of |-> <<>>]

Ev(e, at) == [ev |-> e, at |-> at]

VARIABLES
  reachable,  \* the URLs that answer a GET with status 200
  files,      \* the absolute paths of the regular files that exist
  last        \* the last call: operation, arguments, outcome, I/O log

vars == <<reachable, files, last>>

(***************************************************************************)
(* The environment: requests.get, Path.exists, open, pandas.read_csv.      *)
(***************************************************************************)
\* the schemes requests has a connection adapter for
RequestsSchemes == { <<"h","t","t","p">>, <<"h","t","t","p","s">> }

\* a host that does not answer: requests to it raise ConnectionError, a RequestException
DownHost == <<"x">>

\* requests.get(url) raises (ConnectionError, InvalidSchema, MissingSchema)
GetRaisesFor(result) ==
  result.netloc = DownHost \/ result.scheme \notin RequestsSchemes

GetRaises(url) == GetRaisesFor(urlparse(url))

\* requests.get(url).status_code
HttpOk == 200
HttpNotFound == 404
status_code(url) == IF url \in reachable THEN HttpOk ELSE HttpNotFound

\* p is a directory: the root, the working directory and its ancestors, and
\* the ancestors of every regular file
IsAncestor(p, q) ==
  /\ p.root = q.root
  /\ Len(p.parts) <= Len(q.parts)
  /\ SubSeq(q.parts, 1, Len(p.parts)) = p.parts

IsDir(p) ==
  /\ as_posix(p) \notin files
  /\ \/ IsAncestor(p, ParsePath(Cwd))
     \/ \E f \in files : IsAncestor(p, ParsePath(f))

\* Path.exists()
exists_absolute(a) == as_posix(a) \in files \/ IsDir(a)
exists(p) == exists_absolute(absolute(p))

\* the absolute path the operating system resolves a path string to
OsPath(path) == as_posix(absolute(ParsePath(path)))

\* open(path): the error raised, "" if the file opens
open_error_absolute(a) ==
  IF a \in files THEN ""
  ELSE IF IsDir(ParsePath(a)) THEN "IsADirectoryError"
  ELSE "FileNotFoundError"

open_error(path) == open_error_absolute(OsPath(path))

\* resp.json() / json.load(filein) on the content of the resource at loc
json_error(loc) == IF loc \in JsonLocs THEN "" ELSE "JSONDecodeError"

\* the first of two errors in sequence
FirstError(e1, e2) == IF e1 # "" THEN e1 ELSE e2

\* pandas.read_csv(x) for a URL string or a Path: [exc, table, log]
read_csv_url(url) ==
  [exc |-> IF GetRaises(url) THEN "URLError"
           ELSE IF status_code(url) # HttpOk THEN "HTTPError" ELSE "",
   table |-> CsvTable(url),
   log |-> <<Ev("read_csv", url)>>]

read_csv_path(a) ==
  [exc |-> open_error_absolute(a), table |-> CsvTable(a),
   log |-> <<Ev("read_csv", a)>>]

read_csv(x) ==
  IF x.type = "str" THEN read_csv_url(x.val) ELSE read_csv_path(OsPath(x.val))

(***************************************************************************)
(* _is_valid_url (utils.py lines 20-39).                                   *)
(***************************************************************************)
\* Python truth value of what _is_valid_url returns: True, False, '' or b''
Truthy(ret) == ret = "True"

\* line 36: requests.get(url).status_code == 200
probe(url) ==
  IF GetRaises(url)
  THEN [exc |-> "RequestException", ret |-> "", log |-> <<Ev("GET", url)>>]
  ELSE [exc |-> "",
        ret |-> IF status_code(url) = HttpOk THEN "True" ELSE "False",
        log |-> <<Ev("GET", url)>>]

\* lines 32-37: the value of the 'and' chain
and_chain(url, result) ==
  IF result.raises
  THEN [exc |-> "ValueError", ret |-> "", log |-> <<>>]
  ELSE IF result.scheme = <<>> \/ result.netloc = <<>> \/ result.path = <<>>
  THEN [exc |-> "", ret |-> "''", log |-> <<>>]
  ELSE probe(url)

\* the try block (lines 31-37): the value returned, or the exception raised
\* by urlparse or by requests.get
is_valid_url_try(url) ==
  IF url.type = "None"
  THEN [exc |-> "", ret |-> "b''", log |-> <<>>]
  ELSE IF url.type # "str"
  THEN [exc |-> "AttributeError", ret |-> "", log |-> <<>>]
  ELSE and_chain(url.val, urlparse(url.val))

\* a handler that catches ValueError only
is_valid_url_except_narrow(t) ==
  IF t.exc = "ValueError" THEN [exc |-> "", ret |-> "False", log |-> t.log] ELSE t

\* except Exception: return False (lines 38-39)
is_valid_url_except(t) ==
  IF t.exc # "" THEN [exc |-> "", ret |-> "False", log |-> t.log] ELSE t

_is_valid_url(url) == is_valid_url_except(is_valid_url_try(url))

(***************************************************************************)
(* _fetch_and_parse_json (utils.py lines 42-70).                           *)
(***************************************************************************)
\* lines 58-60: the URL case
load_from_url(input_path) ==
  [exc |-> IF GetRaises(input_path.val) THEN "RequestException"
           ELSE json_error(input_path.val),
   data |-> JsonAt(input_path.val),
   ref |-> input_path,
   log |-> <<Ev("GET", input_path.val)>>]

\* a normalisation that does not make the path absolute
absolute_posix_relative(input_path) == as_posix(ParsePath(input_path.val))

\* line 62: input_path = Path(input_path).absolute().as_posix()
absolute_posix(input_path) == as_posix(absolute(ParsePath(input_path.val)))

\* lines 63-65: open the file and parse it; a is the file the path denotes
open_and_parse(input_path, a) ==
  [exc |-> FirstError(open_error_absolute(a), json_error(a)),
   data |-> JsonAt(a),
   ref |-> Str(input_path),
   log |-> <<Ev("open", a)>>]

\* lines 62-65: the filesystem case
load_from_path(input_path) == open_and_parse(input_path, OsPath(input_path))

load_from_file(input_path) ==
  IF input_path.type \notin {"str", "Path"}
  THEN [exc |-> "TypeError", data |-> NoRec, ref |-> input_path, log |-> <<>>]
  ELSE load_from_path(absolute_posix(input_path))

\* a handler that wraps what it caught
load_wrap(r) == [r EXCEPT !.exc = "RuntimeError"]

\* lines 67-68: except Exception as exc: raise exc
load_reraise(r) == r

\* line 70: return data, input_path, unless an exception propagates
load_return(v, r, out) ==
  [exc |-> out.exc,
   raised |-> r.exc,
   data |-> IF out.exc = "" THEN out.data ELSE NoRec,
   ref |-> IF out.exc = "" THEN out.ref ELSE NoneV,
   returned |-> out.exc = "",
   via |-> IF Truthy(v.ret) THEN "url" ELSE "file",
   log |-> v.log \o r.log]

load_outcome(v, r) ==
  load_return(v, r, IF r.exc # "" THEN load_reraise(r) ELSE r)

\* line 57: if _is_valid_url(input_path)
load_branch(input_path, v) ==
  load_outcome(v, IF Truthy(v.ret) THEN load_from_url(input_path)
                  ELSE load_from_file(input_path))

_fetch_and_parse_json(input_path) ==
  load_branch(input_path, _is_valid_url(input_path))

(***************************************************************************)
(* _fetch_catalog (utils.py lines 73-108): [exc, msg, table, loc, log].    *)
(***************************************************************************)
Raise(e, msg, log) ==
  [exc |-> e, msg |-> msg, table |-> NoTable, loc |-> NoneV, log |-> log]

\* return pd.read_csv(x), x
ReturnRead(x, t, log) ==
  IF t.exc # "" THEN Raise(t.exc, <<>>, log \o t.log)
  ELSE [exc |-> "", msg |-> <<>>, table |-> t.table, loc |-> x, log |-> log \o t.log]

ReturnCsv(x, log) == ReturnRead(x, read_csv(x), log)

\* a reassembly that keeps only scheme, netloc and path
reassemble_bare(split_url, catalog_file) ==
  urlunparse([scheme |-> split_url.scheme, netloc |-> split_url.netloc,
              path |-> as_posix(joinpath(parent(ParsePath(split_url.path)),
                                         ParsePath(catalog_file))),
              params |-> <<>>, query |-> <<>>, fragment |-> <<>>])

\* lines 81-90: the path of the reference replaced, the rest kept
reassemble(split_url, catalog_file) ==
  urlunparse([scheme |-> split_url.scheme, netloc |-> split_url.netloc,
              path |-> as_posix(joinpath(parent(ParsePath(split_url.path)),
                                         ParsePath(catalog_file))),
              params |-> split_url.params, query |-> split_url.query,
              fragment |-> split_url.fragment])

\* lines 80-90: the URL of catalog_file relative to the reference URL
relative_url(esmcol_path, catalog_file) ==
  reassemble(urlparse(esmcol_path), catalog_file)

\* an error that names catalog_file instead of the URL tried
try_relative_url_names_file(catalog_path, catalog, v2, log) ==
  IF ~Truthy(v2.ret)
  THEN Raise("FileNotFoundError", catalog_path.val, log \o v2.log)
  ELSE ReturnCsv(catalog, log \o v2.log)

\* lines 91-93: the reassembled URL is probed, then read
try_relative_url(catalog_path, catalog, v2, log) ==
  IF ~Truthy(v2.ret)
  THEN Raise("FileNotFoundError", catalog.val, log \o v2.log)
  ELSE ReturnCsv(catalog, log \o v2.log)

probe_relative_url(catalog_path, catalog, log) ==
  try_relative_url(catalog_path, catalog, _is_valid_url(catalog), log)

\* a URL branch that probes the reference-relative URL first
choose_url_relative_first(esmcol_path, catalog_path, v1, log0) ==
  LET catalog == Str(relative_url(esmcol_path.val, catalog_path.val))
      v2 == _is_valid_url(catalog)
  IN IF Truthy(v2.ret) \/ ~Truthy(v1.ret)
     THEN try_relative_url(catalog_path, catalog, v2, log0 \o v1.log)
     ELSE ReturnCsv(catalog_path, log0 \o v1.log \o v2.log)

\* lines 79-94: catalog_file itself if it is a usable URL, else relative
choose_url(esmcol_path, catalog_path, v1, log0) ==
  IF ~Truthy(v1.ret)
  THEN probe_relative_url(catalog_path,
                          Str(relative_url(esmcol_path.val, catalog_path.val)),
                          log0 \o v1.log)
  ELSE ReturnCsv(catalog_path, log0 \o v1.log)

probe_catalog_path(esmcol_path, catalog_path, log0) ==
  choose_url(esmcol_path, catalog_path, _is_valid_url(catalog_path), log0)

\* lines 78-94: the reference is a usable URL
catalog_from_url(collection_data, esmcol_path, log0) ==
  probe_catalog_path(esmcol_path, Str(collection_data.catalog_file), log0)

\* line 101: Path(esmcol_path).absolute().parent / catalog_file
relative_path(esmcol_path, catalog_file) ==
  joinpath(parent(absolute(ParsePath(esmcol_path.val))), ParsePath(catalog_file))

\* a second candidate that returns catalog_file where it read the combined path
second_candidate_returns_given(catalog_path, catalog, log) ==
  IF ~exists(catalog)
  THEN Raise("FileNotFoundError", as_posix(catalog), log)
  ELSE ReturnRead(PathV(catalog_path), read_csv(PathV(catalog)), log)

\* lines 102-104: the combined path
second_candidate(catalog_path, catalog, log) ==
  IF ~exists(catalog)
  THEN Raise("FileNotFoundError", as_posix(catalog), log)
  ELSE ReturnCsv(PathV(catalog), log)

check_second(catalog_path, catalog, log) ==
  second_candidate(catalog_path, catalog, log \o <<Ev("exists", as_posix(catalog))>>)

\* a local branch that tries the reference-relative path first
path_candidates_relative_first(esmcol_path, catalog_file, catalog_path, log) ==
  IF esmcol_path.type \in {"str", "Path"}
     /\ exists(relative_path(esmcol_path, catalog_file))
  THEN check_second(catalog_path, relative_path(esmcol_path, catalog_file), log)
  ELSE IF ~exists(catalog_path)
  THEN IF esmcol_path.type \notin {"str", "Path"}
       THEN Raise("TypeError", <<>>, log)
       ELSE check_second(catalog_path, relative_path(esmcol_path, catalog_file), log)
  ELSE ReturnCsv(PathV(catalog_path), log)

\* lines 99-106: catalog_file as a path if it exists, else the combined path
path_candidates(esmcol_path, catalog_file, catalog_path, log) ==
  IF ~exists(catalog_path)
  THEN IF esmcol_path.type \notin {"str", "Path"}
       THEN Raise("TypeError", <<>>, log)
       ELSE check_second(catalog_path, relative_path(esmcol_path, catalog_file), log)
  ELSE ReturnCsv(PathV(catalog_path), log)

check_first(esmcol_path, catalog_file, catalog_path, log0) ==
  path_candidates(esmcol_path, catalog_file, catalog_path,
                  log0 \o <<Ev("exists", as_posix(absolute(catalog_path)))>>)

\* lines 96-106: the reference is not a usable URL
catalog_from_path(collection_data, esmcol_path, log0) ==
  check_first(esmcol_path, collection_data.catalog_file,
              ParsePath(collection_data.catalog_file), log0)

\* line 108: return pd.DataFrame(collection_data['catalog_dict']), None
catalog_from_dict(collection_data) ==
  IF collection_data.has_dict
  THEN [exc |-> "", msg |-> <<>>, table |-> DictTable, loc |-> NoneV, log |-> <<>>]
  ELSE Raise("KeyError", <<>>, <<>>)

\* a branch test that looks at the shape of the reference only
reference_is_url_shape(esmcol_path) ==
  [exc |-> "", log |-> <<>>,
   ret |-> IF is_valid_url_try(esmcol_path).log # <<>> THEN "True" ELSE "False"]

\* line 77: if _is_valid_url(esmcol_path)
reference_is_url(esmcol_path) == _is_valid_url(esmcol_path)

catalog_branch(collection_data, esmcol_path, v) ==
  IF Truthy(v.ret)
  THEN catalog_from_url(collection_data, esmcol_path, v.log)
  ELSE catalog_from_path(collection_data, esmcol_path, v.log)

\* a resolver that prefers the embedded table
fetch_catalog_dict_first(collection_data, esmcol_path) ==
  IF collection_data.has_dict
  THEN catalog_from_dict(collection_data)
  ELSE IF collection_data.has_file
  THEN catalog_branch(collection_data, esmcol_path, reference_is_url(esmcol_path))
  ELSE catalog_from_dict(collection_data)

_fetch_catalog(collection_data, esmcol_path) ==
  IF collection_data.has_file
  THEN catalog_branch(collection_data, esmcol_path, reference_is_url(esmcol_path))
  ELSE catalog_from_dict(collection_data)

(***************************************************************************)
(* The state machine: calls of the three functions, and the environment    *)
(* changing between calls.                                                 *)
(***************************************************************************)
\* arguments of _is_valid_url
NoScheme == <<"n","/","d","/","f">>
NoNetloc == <<"h","t","t","p",":","/","n","/","d">>
NoPath == <<"h","t","t","p",":","/","/","n">>
BadIPv6 == <<"h","t","t","p",":","/","/","[","n","/","d">>
NoAdapter == <<"s","3",":","/","/","n","/","d">>
HostDown == <<"h","t","t","p",":","/","/","x","/","d">>
Number == <<"5","5","5","5","5">>
UrlInputs ==
  {Str(U1), Str(U2), Str(CfUrl), Str(NoScheme), Str(NoNetloc), Str(NoPath),
   Str(BadIPv6), Str(NoAdapter), Str(HostDown), IntV(Number), NoneV, PathV(ParsePath(LocalRef))}

\* arguments of _fetch_and_parse_json
LoaderInputs ==
  {Str(U1), Str(U2), Str(CfUrl), Str(LocalRef), Str(CfName), IntV(Number)}

\* references handed to _fetch_catalog without a preceding load
RefInputs == {Str(U1), Str(U2), Str(LocalRef), NoneV}

Idle ==
  [op |-> "idle", arg |-> NoneV, rec |-> NoRec, from |-> "", via |-> "",
   exc |-> "", raised |-> "", msg |-> <<>>, ret |-> "", data |-> NoRec, loc |-> NoneV,
   table |-> NoTable, prev |-> NoTable, log |-> <<>>]

Init ==
  /\ reachable = {}
  /\ files = {}
  /\ last = Idle

\* a call of _is_valid_url(url)
Checked(url, t, r) ==
  [Idle EXCEPT !.op = "is_valid_url", !.arg = url, !.exc = r.exc,
               !.raised = t.exc, !.ret = r.ret, !.log = r.log]

CheckedTry(url, t) == Checked(url, t, is_valid_url_except(t))

CheckUrl(url) ==
  /\ last.op = "idle"
  /\ last' = CheckedTry(url, is_valid_url_try(url))
  /\ UNCHANGED <<reachable, files>>

\* a call of _fetch_and_parse_json(input_path)
Loaded(input_path, r) ==
  [Idle EXCEPT !.op = "load", !.arg = input_path, !.via = r.via,
               !.exc = r.exc, !.raised = r.raised, !.data = r.data,
               !.loc = r.ref, !.ret = IF r.returned THEN "pair" ELSE "",
               !.log = r.log]

Load(input_path) ==
  /\ last.op = "idle"
  /\ last' = Loaded(input_path, _fetch_and_parse_json(input_path))
  /\ UNCHANGED <<reachable, files>>

\* the outcome r of _fetch_catalog(rec, ref) as the last call
ResolvedAs(rec, ref, from, prev, r) ==
  [Idle EXCEPT !.op = "resolve", !.arg = ref, !.rec = rec, !.from = from,
               !.exc = r.exc, !.msg = r.msg, !.loc = r.loc,
               !.table = r.table, !.prev = prev, !.log = r.log]

Resolved(rec, ref, from, prev) ==
  ResolvedAs(rec, ref, from, prev, _fetch_catalog(rec, ref))

\* a call of _fetch_catalog on any record and reference
ResolveFresh(rec, ref) ==
  /\ last.op = "idle"
  /\ last' = Resolved(rec, ref, "fresh", NoTable)
  /\ UNCHANGED <<reachable, files>>

\* the output of the loader fed to _fetch_catalog, the caller possibly
\* having set data['catalog_file'] in between
ResolveLoaded(rec) ==
  /\ last.op = "load"
  /\ last.exc = ""
  /\ \/ rec = last.data
     \/ \E c \in CatalogFiles : rec = [last.data EXCEPT !.has_file = TRUE, !.catalog_file = c]
  /\ last' = Resolved(rec, last.loc, "loaded_" \o last.via, NoTable)
  /\ UNCHANGED <<reachable, files>>

\* _fetch_catalog called again on the same record, with the location it
\* returned as the reference, the environment being as it was
ResolveAgain ==
  /\ last.op = "resolve"
  /\ last.exc = ""
  /\ last.from # "again"
  /\ last' = Resolved(last.rec, last.loc, "again", last.table)
  /\ UNCHANGED <<reachable, files>>

\* the caller takes the result of the call
Return ==
  /\ last.op # "idle"
  /\ last' = Idle
  /\ UNCHANGED <<reachable, files>>

\* the environment changes between calls; the result of a load stays in the
\* caller's hands meanwhile
BetweenCalls == last.op \in {"idle", "load"}

Publish(u) ==
  /\ BetweenCalls
  /\ u \notin reachable
  /\ Cardinality(reachable) < MaxReachable
  /\ reachable' = reachable \cup {u}
  /\ UNCHANGED <<files, last>>

Withdraw(u) ==
  /\ BetweenCalls
  /\ u \in reachable
  /\ reachable' = reachable \ {u}
  /\ UNCHANGED <<files, last>>

CreateFile(f) ==
  /\ BetweenCalls
  /\ f \notin files
  /\ Cardinality(files) < MaxFiles
  /\ files' = files \cup {f}
  /\ UNCHANGED <<reachable, last>>

DeleteFile(f) ==
  /\ BetweenCalls
  /\ f \in files
  /\ files' = files \ {f}
  /\ UNCHANGED <<reachable, last>>

Next ==
  \/ \E url \in UrlInputs : CheckUrl(url)
  \/ \E input_path \in LoaderInputs : Load(input_path)
  \/ \E rec \in Records, ref \in RefInputs : ResolveFresh(rec, ref)
  \/ \E rec \in Records : ResolveLoaded(rec)
  \/ ResolveAgain
  \/ \E u \in UrlUniverse : Publish(u)
  \/ \E u \in UrlUniverse : Withdraw(u)
  \/ \E f \in PathUniverse : CreateFile(f)
  \/ \E f \in PathUniverse : DeleteFile(f)
  \/ Return

Spec == Init /\ [][Next]_vars


(***************************************************************************)
(* Properties.  In a state where last.op is "is_valid_url" or "resolve"    *)
(* the environment is the one the call ran in.                             *)
(***************************************************************************)
\* the string has scheme, network location and non-empty path
HasUrlShape(x) ==
  /\ x.type = "str"
  /\ ~urlparse(x.val).raises
  /\ urlparse(x.val).scheme # <<>>
  /\ urlparse(x.val).netloc # <<>>
  /\ urlparse(x.val).path # <<>>

\* the live probe of the URL answers with status 200
ProbeOk(x) == ~GetRaises(x.val) /\ x.val \in reachable

Usable(x) == HasUrlShape(x) /\ ProbeOk(x)

Resolving == last.op = "resolve" /\ last.rec.has_file
InUrlBranch == Resolving /\ Usable(last.arg)
InPathBranch == Resolving /\ ~Usable(last.arg) /\ last.arg.type \in {"str", "Path"}
CatalogFileUsable == Usable(Str(last.rec.catalog_file))

\* the events of the log of the last call that are of kind e
EventsOf(e) == SelectSeq(last.log, LAMBDA x : x.ev = e)

C2_LoaderReference ==
  (last.op = "load" /\ last.exc = "") =>
    IF last.via = "url"
    THEN /\ last.loc = last.arg
         /\ last.data = JsonAt(last.arg.val)
         /\ last.log = <<Ev("GET", last.arg.val), Ev("GET", last.arg.val)>>
    ELSE /\ last.loc.type = "str"
         /\ last.loc.val = Cwd \o <<"/">> \o last.arg.val
         /\ last.data = JsonAt(last.loc.val)
         /\ Ev("open", last.loc.val) \in {last.log[i] : i \in 1..Len(last.log)}

C2_Witness ==
  /\ last.op = "load"
  /\ last.exc = ""
  /\ last.via = "file"
  /\ last.arg = Str(LocalRef)
  /\ last.loc = Str(<<"/","w","/","d","/","f">>)

\* C3: in the URL branch, with a catalog_file that is not a usable URL, a
\* successful resolve returns the reference URL with its path replaced by
\* (parent of the path) joined with catalog_file; scheme, netloc, params,
\* query and fragment are those of the reference URL.
C3_RelativeUrl ==
  (InUrlBranch /\ ~CatalogFileUsable /\ last.exc = "") =>
    /\ last.loc = Str(RelUrl(last.arg.val, last.rec.catalog_file))
    /\ (last.arg = Str(U1) /\ last.rec.catalog_file = CfName)
         => last.loc.val = <<"h","t","t","p",":","/","/","n","/","d","/","c">>
    /\ (last.arg = Str(U2) /\ last.rec.catalog_file = CfName)
         => last.loc.val = <<"h","t","t","p",":","/","/","n","/","d","/","c",
                             ";","p","?","q","#","g">>
    /\ last.table = CsvTable(last.loc.val)

C3_Witness ==
  /\ InUrlBranch
  /\ last.exc = ""
  /\ last.arg = Str(U2)
  /\ last.rec.catalog_file = CfName
  /\ last.loc = Str(RelUrl(U2, CfName))

\* C4: in the URL branch, when catalog_file is not a usable URL and the
\* reassembled URL is not reachable, the call raises FileNotFoundError naming
\* exactly the reassembled URL, and returns neither table nor location.
C4_NotFoundNamesUrl ==
  (InUrlBranch /\ ~CatalogFileUsable
     /\ ~Usable(Str(RelUrl(last.arg.val, last.rec.catalog_file)))) =>
    /\ last.exc = "FileNotFoundError"
    /\ last.msg = RelUrl(last.arg.val, last.rec.catalog_file)
    /\ last.table = NoTable
    /\ last.loc = NoneV

C4_Witness ==
  /\ InUrlBranch
  /\ last.rec.catalog_file = CfSub
  /\ last.exc = "FileNotFoundError"
  /\ last.msg = <<"h","t","t","p",":","/","/","n","/","d","/","s","/","c">>

\* the two candidates of the local branch
Candidate1 == ParsePath(last.rec.catalog_file)
Candidate2 ==
  joinpath(parent(absolute(ParsePath(last.arg.val))), ParsePath(last.rec.catalog_file))

\* C5: in the local branch the candidates are tried in order: catalog_file
\* as a path if it exists; otherwise (parent of the absolute reference)
\* joined with catalog_file if that exists; FileNotFoundError naming the
\* combined path is raised exactly when neither exists.
C5_LocalOrder ==
  InPathBranch =>
    /\ exists(Candidate1) =>
         /\ last.exc = "" => last.loc = PathV(Candidate1)
         /\ EventsOf("exists") = <<Ev("exists", as_posix(absolute(Candidate1)))>>
    /\ (~exists(Candidate1) /\ exists(Candidate2)) =>
         /\ last.exc = "" => last.loc = PathV(Candidate2)
         /\ EventsOf("exists") = <<Ev("exists", as_posix(absolute(Candidate1))),
                                   Ev("exists", as_posix(Candidate2))>>
    /\ (last.exc = "FileNotFoundError" /\ last.msg = as_posix(Candidate2))
         <=> (~exists(Candidate1) /\ ~exists(Candidate2))
    /\ last.exc = "" => last.table = CsvTable(as_posix(absolute(ParsePath(last.loc.val))))

C5_Witness ==
  /\ InPathBranch
  /\ last.arg = Str(LocalRef)
  /\ last.rec.catalog_file = CfName
  /\ ~exists(Candidate1)
  /\ last.exc = ""
  /\ last.loc = [type |-> "Path", val |-> <<"/","w","/","d","/","c">>]


\* the round trip: the last call re-resolved the record of a successful
\* resolve, with the returned location as reference, in the same environment
RoundTrip == last.op = "resolve" /\ last.from = "again"

\* C6 as stated: after every successful resolve, resolving again with the
\* returned location as the reference succeeds and yields the same table.
C6_RoundTripAlways ==
  RoundTrip => (last.exc = "" /\ last.table = last.prev)

\* catalog_file is a bare file name: one non-empty path segment, not '.' or
\* '..', with none of the characters '/', '?', '#', ';'
BareName(cf) ==
  /\ cf # <<>>
  /\ cf # <<".">>
  /\ cf # <<".", ".">>
  /\ \A c \in {"/", "?", "#", ";"} : ~Has(cf, c)

\* the first resolve returned catalog_file as given (a usable URL, or an
\* existing path)
UsedAsGiven ==
  \/ last.arg = Str(last.rec.catalog_file)
  \/ last.arg = PathV(ParsePath(last.rec.catalog_file))

\* C6 amended: the round trip succeeds with the same table when the record
\* has no catalog_file, when catalog_file was used as given, or when
\* catalog_file is a bare file name.
C6_RoundTripBareName ==
  (RoundTrip /\ (~last.rec.has_file \/ UsedAsGiven \/ BareName(last.rec.catalog_file)))
    => (last.exc = "" /\ last.table = last.prev /\ last.loc = last.arg)

C6_Witness ==
  /\ RoundTrip
  /\ last.rec.has_file
  /\ last.rec.catalog_file = CfName
  /\ last.arg = Str(RelUrl(U1, CfName))
  /\ last.exc = ""
  /\ last.table = CsvTable(RelUrl(U1, CfName))

\* no candidate of catalog_file can be resolved
Unresolvable ==
  \/ InUrlBranch /\ ~CatalogFileUsable
       /\ ~Usable(Str(RelUrl(last.arg.val, last.rec.catalog_file)))
  \/ InPathBranch /\ ~exists(Candidate1) /\ ~exists(Candidate2)

\* C7: without a catalog_file key the table is built from catalog_dict, the
\* location is None and no probe, fetch or filesystem check is made; with a
\* catalog_file key catalog_dict is never used, and an unresolvable
\* catalog_file ends in FileNotFoundError.
C7_FileBeforeDict ==
  last.op = "resolve" =>
    /\ (~last.rec.has_file /\ last.rec.has_dict) =>
         (last.exc = "" /\ last.table = DictTable /\ last.loc = NoneV /\ last.log = <<>>)
    /\ last.rec.has_file => last.table # DictTable
    /\ (last.rec.has_file /\ last.exc = "") => (last.table.kind = "csv" /\ last.loc # NoneV)
    /\ Unresolvable => (last.exc = "FileNotFoundError" /\ last.table = NoTable)

C7_Witness ==
  /\ last.op = "resolve"
  /\ last.rec = Rec(TRUE, CfName, TRUE)
  /\ Unresolvable
  /\ last.exc = "FileNotFoundError"

\* C8: in the URL branch a catalog_file that is itself a usable URL is
\* returned unchanged as the location; the reference-relative URL is neither
\* returned nor probed.
C8_OwnUrlWins ==
  (InUrlBranch /\ CatalogFileUsable) =>
    /\ last.exc = ""
    /\ last.loc = Str(last.rec.catalog_file)
    /\ last.table = CsvTable(last.rec.catalog_file)
    /\ last.log = <<Ev("GET", last.arg.val), Ev("GET", last.rec.catalog_file),
                    Ev("read_csv", last.rec.catalog_file)>>
    /\ \A i \in 1..Len(last.log) :
         last.log[i].at # RelUrl(last.arg.val, last.rec.catalog_file)

C8_Witness ==
  /\ InUrlBranch
  /\ CatalogFileUsable
  /\ last.arg = Str(U1)
  /\ last.rec.catalog_file = CfUrl
  /\ last.loc = Str(CfUrl)

\* a step that is a call of the loader
LoadStep == last.op = "idle" /\ last'.op = "load"

\* C9: a failing load returns no (record, reference) pair and lets the
\* original exception through unchanged: the parser's error when the fetched
\* body is not JSON, the filesystem's error when the path does not exist.
C9_LoaderPropagates ==
  [][LoadStep =>
       /\ last'.exc = last'.raised
       /\ last'.exc # "" =>
            (last'.ret # "pair" /\ last'.data = NoRec /\ last'.loc = NoneV)
       /\ last'.exc = "" => last'.ret = "pair"
       /\ (Usable(last'.arg) /\ last'.arg.val \notin JsonLocs)
            => last'.exc = "JSONDecodeError"
       /\ (~Usable(last'.arg) /\ last'.arg.type = "str"
             /\ ~exists(ParsePath(last'.arg.val)))
            => last'.exc = "FileNotFoundError"
       /\ last'.arg.type = "int" => last'.exc = "TypeError"
  ]_vars

C9_Witness ==
  /\ last.op = "load"
  /\ last.arg = Str(CfUrl)
  /\ last.via = "url"
  /\ last.exc = "JSONDecodeError"
  /\ last.ret = ""

\* the reference came from the URL case of the loader and the record has a
\* catalog_file key
ChainedFromUrl == Resolving /\ last.from = "loaded_url"

\* the outcome of the URL branch: a URL returned, or not-found naming a URL,
\* and no filesystem check
UrlOutcome ==
  /\ EventsOf("exists") = <<>>
  /\ last.exc = "" => (last.loc.type = "str" /\ HasUrlShape(last.loc))
  /\ last.exc # "" => (last.exc = "FileNotFoundError" /\ HasUrlShape(Str(last.msg)))

\* C10 as stated: fed with the loader's URL reference, the resolver takes the
\* URL branch whatever the reachability of the resource at that moment.
C10_AlwaysUrlBranch == ChainedFromUrl => UrlOutcome

\* C10 amended: the resolver takes the URL branch only when the reference
\* passes the reachability check again; when it does not, the resolver
\* checks the local filesystem and returns a path, or raises not-found
\* naming the path combined from the reference, or the table reader's error.
C10_BranchOnProbe ==
  ChainedFromUrl =>
    IF Usable(last.arg)
    THEN UrlOutcome
    ELSE /\ EventsOf("exists") # <<>>
         /\ EventsOf("GET") = <<Ev("GET", last.arg.val)>>
         /\ last.exc = "" => last.loc.type = "Path"
         /\ last.exc # "" =>
              \/ last.exc = "FileNotFoundError" /\ last.msg = as_posix(Candidate2)
              \/ last.exc = "IsADirectoryError"

C10_Witness ==
  /\ ChainedFromUrl
  /\ last.arg = Str(U1)
  /\ ~Usable(last.arg)
  /\ last.rec.catalog_file = CfName
  /\ last.exc = ""
  /\ last.loc = [type |-> "Path", val |-> <<"c">>]

=============================================================================
